---- MODULE Spec2Model ----
(***************************************************************************)
(* Model of omnisync_framework.py: the frame aligner (align_audio_video),  *)
(* the guidance scheduler (compute_guidance_strength), the lip region      *)
(* crop (extract_lip_region), the per-frame loop of generate_lip_sync and  *)
(* save_video.                                                             *)
(*                                                                         *)
(* Numbers.  Python floats are modelled by exact rationals [num, den]      *)
(* (den > 0).  int(k * 0.67), int(k * 0.33), int(k * 0.2), int(k * 0.6)    *)
(* and int(i * n / t) are modelled by integer floor division; on           *)
(* non-negative operands of the sizes used here the float expression and   *)
(* the integer floor agree.                                                *)
(*                                                                         *)
(* A call that raises is modelled by a result [status |-> "raise", exc]:   *)
(* the source has no try/except, so every exception propagates.            *)
(***************************************************************************)
EXTENDS Integers, Sequences, FiniteSets, TLC

VARIABLES
    pc,                \* position in generate_lip_sync / the called operation
    video_frames,      \* frames returned by preprocess_video (frame ids)
    mel_spec,          \* audio_features['mel_spectrogram'], one value per column
    audio_length,      \* audio_features['audio_length'] (rational seconds)
    aligned_audio,     \* aligned_audio of generate_lip_sync
    i,                 \* loop index of the frame loop (0-based, as in the code)
    face_bbox,         \* face_bbox of the current iteration
    lip_region,        \* lip_region of the current iteration
    guidance_strength, \* guidance_strength of the current iteration
    output_frames,     \* output_frames
    writer,            \* the cv2.VideoWriter used by save_video
    exc,               \* exception that left generate_lip_sync, or "none"
    log,               \* history: calls made by the frame loop, in order
    args,              \* arguments of a direct call of one operation
    ret                \* its result

vars ==
    <<pc, video_frames, mel_spec, audio_length, aligned_audio, i, face_bbox,
      lip_region, guidance_strength, output_frames, writer, exc, log, args, ret>>

-----------------------------------------------------------------------------
(* Bounds of the model *)

MaxFrames == 3

MaxAudioCols == 2

MaxMel == 2

MelScale == 2

MaxSamples == 2

MaxCols == 6

MaxTarget == 6

MaxTotal == 4

MaxBaseNum == 10

MaxPowerNum == 3

MaxBoxDim == 12

MaxOff == 1

FrameHeight == 16

FrameWidth == 16

BigFrame == 128

(* Program constants *)

SampleRate == 16000

DefaultBaseNum == 7

ModelGrid == 64

-----------------------------------------------------------------------------
(* Rational arithmetic standing for Python float arithmetic *)

Rat(n, d) == [num |-> n, den |-> d]

RZero == Rat(0, 1)

ROne == Rat(1, 1)

RSub(a, b) == Rat(a.num * b.den - b.num * a.den, a.den * b.den)

RMul(a, b) == Rat(a.num * b.num, a.den * b.den)

RAbs(a) == Rat(IF a.num < 0 THEN -a.num ELSE a.num, a.den)

RLeq(a, b) == a.num * b.den <= b.num * a.den

REq(a, b) == a.num * b.den = b.num * a.den

RMin(a, b) == IF RLeq(a, b) THEN a ELSE b

None == "None"

Ok(v) == [status |-> "ok", value |-> v]

Raise(e) == [status |-> "raise", exc |-> e]

-----------------------------------------------------------------------------
(* DynamicGuidanceSystem.compute_guidance_strength *)

AudioWeightUnclamped(audio_power) == RMul(audio_power, Rat(2, 1))

audio_weight(audio_power) == RMin(RMul(audio_power, Rat(2, 1)), ROne)

temporal_weight(frame_idx, total_frames) ==
    RSub(ROne, RMul(RAbs(RSub(Rat(frame_idx, total_frames), Rat(1, 2))), Rat(3, 10)))

compute_guidance_strength(base_strength, audio_power, frame_idx, total_frames) ==
    IF total_frames = 0
    THEN Raise("ZeroDivisionError")
    ELSE Ok(RMul(RMul(base_strength, temporal_weight(frame_idx, total_frames)),
                 audio_weight(audio_power)))

-----------------------------------------------------------------------------
(* OmniSyncFramework.align_audio_video *)

audio_idx(k, cols, target_frames) ==
    LET idx == (k * cols) \div target_frames
    IN  IF idx <= cols - 1 THEN idx ELSE cols - 1

\* the track: entry k (0-based) is kept at position k + 1
align_audio_video(alen, mel, target_frames) ==
    IF alen.num = 0
    THEN Raise("ZeroDivisionError")
    ELSE IF target_frames > 0 /\ Len(mel) = 0
    THEN Raise("IndexError")
    ELSE Ok([k \in 1..target_frames |->
                mel[audio_idx(k - 1, Len(mel), target_frames) + 1]])

-----------------------------------------------------------------------------
(* FaceDetector.extract_lip_region *)

\* numpy slice a[lo:hi] on an axis of length n, lo and hi non-negative
Slice(lo, hi, n) ==
    LET s == IF lo < n THEN lo ELSE n
        e == IF hi < n THEN hi ELSE n
    IN  [start |-> s, stop |-> IF e < s THEN s ELSE e]

\* variant: the crop runs to the bottom row of the box
ExtractLipToBoxBottom(frame, bbox) ==
    LET x == bbox[1]
        y == bbox[2]
        w == bbox[3]
        h == bbox[4]
        lip_y == y + (h * 67) \div 100
        lip_x == x + (w * 2) \div 10
        lip_w == (w * 6) \div 10
    IN  [frame |-> frame.id,
         rows |-> Slice(lip_y, y + h, frame.height),
         cols |-> Slice(lip_x, lip_x + lip_w, frame.width)]

extract_lip_region(frame, bbox) ==
    LET x == bbox[1]
        y == bbox[2]
        w == bbox[3]
        h == bbox[4]
        lip_y == y + (h * 67) \div 100
        lip_h == (h * 33) \div 100
        lip_x == x + (w * 2) \div 10
        lip_w == (w * 6) \div 10
    IN  [frame |-> frame.id,
         rows |-> Slice(lip_y, lip_y + lip_h, frame.height),
         cols |-> Slice(lip_x, lip_x + lip_w, frame.width)]

\* cv2.resize(lip_region, (64, 64)): cv2.error on an empty source image
cv2_resize(region) ==
    IF region.rows.stop = region.rows.start \/ region.cols.stop = region.cols.start
    THEN Raise("cv2.error")
    ELSE Ok([frame |-> region.frame, height |-> ModelGrid, width |-> ModelGrid])

-----------------------------------------------------------------------------
(* Inputs *)

\* a video of n frames of one size; frame k (1-based) has content id k
Video(n) == [k \in 1..n |-> [id |-> k, height |-> FrameHeight, width |-> FrameWidth]]

\* mel spectrogram values v / MelScale, one band
MelValues == {Rat(v, MelScale) : v \in 0..MaxMel}

MelSpecs(maxcols) == UNION {[1..c -> MelValues] : c \in 0..maxcols}

\* a matrix whose column j (0-based) holds the value j
MelRamp(c) == [j \in 1..c |-> Rat(j - 1, 1)]

\* audio_length = len(audio) / sample_rate
AudioLength(samples) == Rat(samples, SampleRate)

\* np.mean(column ** 2) of a one-band column
AudioPower(column) == RMul(column, column)

\* boxes the locator returns in the frame loop of the model
PipelineBoxes == {<<1, 1, 10, 10>>, <<0, 0, 2, 2>>}

BoxDims == (0..MaxBoxDim) \cup {100}

Boxes == (0..MaxOff) \X (0..MaxOff) \X BoxDims \X BoxDims

FrameSizes == {<<FrameHeight, FrameWidth>>, <<BigFrame, BigFrame>>}

\* results of detect_face: a bounding box or None
Box(b) == [kind |-> "box", box |-> b]

NoFace == [kind |-> "none", box |-> <<>>]

NoRegion == [frame |-> 0, rows |-> [start |-> 0, stop |-> 0], cols |-> [start |-> 0, stop |-> 0]]

NoWriter == [created |-> FALSE, written |-> <<>>, released |-> FALSE]

Event(op, k, out) == [op |-> op, frame |-> k, out |-> out]

-----------------------------------------------------------------------------
(* generate_lip_sync *)

InitCommon ==
    /\ video_frames = <<>>
    /\ mel_spec = <<>>
    /\ audio_length = RZero
    /\ aligned_audio = <<>>
    /\ i = 0
    /\ face_bbox = NoFace
    /\ lip_region = NoRegion
    /\ guidance_strength = RZero
    /\ output_frames = <<>>
    /\ writer = NoWriter
    /\ exc = "none"
    /\ log = <<>>
    /\ args = None
    /\ ret = None

Init == pc = "start" /\ InitCommon

\* variant: the exception is caught and the frame loop goes on
AbortSwallowed(e) ==
    /\ pc' = "loop"
    /\ exc' = exc

\* an exception leaves generate_lip_sync: nothing catches it
Abort(e) ==
    /\ pc' = "aborted"
    /\ exc' = e

\* lines 238-242: load_audio, extract_audio_features, preprocess_video
Load ==
    /\ pc = "start"
    /\ \E n \in 0..MaxFrames, mel \in MelSpecs(MaxAudioCols), samples \in 0..MaxSamples :
          /\ video_frames' = Video(n)
          /\ mel_spec' = mel
          /\ audio_length' = AudioLength(samples)
    /\ pc' = "align"
    /\ UNCHANGED <<aligned_audio, i, face_bbox, lip_region, guidance_strength,
                   output_frames, writer, exc, log, args, ret>>

\* line 245
Align ==
    /\ pc = "align"
    /\ LET r == align_audio_video(audio_length, mel_spec, Len(video_frames))
       IN  IF r.status = "raise"
           THEN Abort(r.exc) /\ UNCHANGED aligned_audio
           ELSE pc' = "loop" /\ aligned_audio' = r.value /\ UNCHANGED exc
    /\ UNCHANGED <<video_frames, mel_spec, audio_length, i, face_bbox, lip_region,
                   guidance_strength, output_frames, writer, log, args, ret>>

\* variant: a raising locator is called again on the same frame
DetectWithRetry ==
    /\ pc = "loop"
    /\ i < Len(video_frames)
    /\ \E raised \in BOOLEAN, out \in {Box(b) : b \in PipelineBoxes} \cup {NoFace} :
          IF raised
          THEN /\ log' = Append(log, Event("detect", i, "raise"))
               /\ UNCHANGED <<pc, exc, face_bbox>>
          ELSE /\ log' = Append(log, Event("detect", i, out.kind))
               /\ pc' = "detected"
               /\ face_bbox' = out
               /\ UNCHANGED exc
    /\ UNCHANGED <<video_frames, mel_spec, audio_length, aligned_audio, i, lip_region,
                   guidance_strength, output_frames, writer, args, ret>>

\* lines 251-253: next frame of the loop, detect_face(frame); the locator is an
\* external capability: it returns a box, returns None, or raises
Detect ==
    /\ pc = "loop"
    /\ i < Len(video_frames)
    /\ \E raised \in BOOLEAN, out \in {Box(b) : b \in PipelineBoxes} \cup {NoFace} :
          IF raised
          THEN /\ log' = Append(log, Event("detect", i, "raise"))
               /\ Abort("DetectorError")
               /\ UNCHANGED face_bbox
          ELSE /\ log' = Append(log, Event("detect", i, out.kind))
               /\ pc' = "detected"
               /\ face_bbox' = out
               /\ UNCHANGED exc
    /\ UNCHANGED <<video_frames, mel_spec, audio_length, aligned_audio, i, lip_region,
                   guidance_strength, output_frames, writer, args, ret>>

\* variant: a frame without a face is skipped, not emitted
PassthroughSkip ==
    /\ pc = "detected"
    /\ face_bbox = NoFace
    /\ i' = i + 1
    /\ pc' = "loop"
    /\ UNCHANGED <<video_frames, mel_spec, audio_length, aligned_audio, face_bbox,
                   lip_region, guidance_strength, output_frames, writer, exc, log,
                   args, ret>>

\* lines 255-257
Passthrough ==
    /\ pc = "detected"
    /\ face_bbox = NoFace
    /\ output_frames' = Append(output_frames, video_frames[i + 1])
    /\ log' = Append(log, Event("emit", i, "ok"))
    /\ i' = i + 1
    /\ pc' = "loop"
    /\ UNCHANGED <<video_frames, mel_spec, audio_length, aligned_audio, face_bbox,
                   lip_region, guidance_strength, writer, exc, args, ret>>

\* line 260
ExtractLip ==
    /\ pc = "detected"
    /\ face_bbox # NoFace
    /\ lip_region' = extract_lip_region(video_frames[i + 1], face_bbox.box)
    /\ log' = Append(log, Event("extract", i, "ok"))
    /\ pc' = "cropped"
    /\ UNCHANGED <<video_frames, mel_spec, audio_length, aligned_audio, i, face_bbox,
                   guidance_strength, output_frames, writer, exc, args, ret>>

\* lines 263-267
Resize ==
    /\ pc = "cropped"
    /\ LET r == cv2_resize(lip_region)
       IN  /\ log' = Append(log, Event("resize", i, r.status))
           /\ IF r.status = "raise"
              THEN Abort(r.exc)
              ELSE pc' = "resized" /\ UNCHANGED exc
    /\ UNCHANGED <<video_frames, mel_spec, audio_length, aligned_audio, i, face_bbox,
                   lip_region, guidance_strength, output_frames, writer, args, ret>>

\* lines 270-273
Guidance ==
    /\ pc = "resized"
    /\ LET r == compute_guidance_strength(Rat(DefaultBaseNum, 10),
                                          AudioPower(aligned_audio[i + 1]),
                                          i, Len(video_frames))
       IN  /\ log' = Append(log, Event("guidance", i, r.status))
           /\ IF r.status = "raise"
              THEN Abort(r.exc) /\ UNCHANGED guidance_strength
              ELSE pc' = "guided" /\ guidance_strength' = r.value /\ UNCHANGED exc
    /\ UNCHANGED <<video_frames, mel_spec, audio_length, aligned_audio, i, face_bbox,
                   lip_region, output_frames, writer, args, ret>>

\* lines 276-277: self.model(audio_input, visual_input); the predictor is an
\* external capability: it returns a tensor (discarded) or raises
Predict ==
    /\ pc = "guided"
    /\ \E out \in {"ok", "raise"} :
          /\ log' = Append(log, Event("predict", i, out))
          /\ IF out = "raise"
             THEN Abort("PredictorError")
             ELSE pc' = "predicted" /\ UNCHANGED exc
    /\ UNCHANGED <<video_frames, mel_spec, audio_length, aligned_audio, i, face_bbox,
                   lip_region, guidance_strength, output_frames, writer, args, ret>>

\* variant: the resized lip crop is emitted in place of the frame
EmitSynthesized ==
    /\ pc = "predicted"
    /\ output_frames' = Append(output_frames,
                               [id |-> 0, height |-> ModelGrid, width |-> ModelGrid])
    /\ log' = Append(log, Event("emit", i, "ok"))
    /\ i' = i + 1
    /\ pc' = "loop"
    /\ UNCHANGED <<video_frames, mel_spec, audio_length, aligned_audio, face_bbox,
                   lip_region, guidance_strength, writer, exc, args, ret>>

\* line 280
EmitOriginal ==
    /\ pc = "predicted"
    /\ output_frames' = Append(output_frames, video_frames[i + 1])
    /\ log' = Append(log, Event("emit", i, "ok"))
    /\ i' = i + 1
    /\ pc' = "loop"
    /\ UNCHANGED <<video_frames, mel_spec, audio_length, aligned_audio, face_bbox,
                   lip_region, guidance_strength, writer, exc, args, ret>>

-----------------------------------------------------------------------------
(* save_video, called at line 283 *)

\* variant: no early return, frames[0] is read of an empty list
SaveVideoEntryNoGuard ==
    /\ pc = "loop"
    /\ i = Len(video_frames)
    /\ log' = Append(log, Event("save_video", Len(output_frames), "ok"))
    /\ IF output_frames = <<>>
       THEN Abort("IndexError") /\ UNCHANGED writer
       ELSE pc' = "writing" /\ writer' = [writer EXCEPT !.created = TRUE] /\ UNCHANGED exc
    /\ UNCHANGED <<video_frames, mel_spec, audio_length, aligned_audio, i, face_bbox,
                   lip_region, guidance_strength, output_frames, args, ret>>

\* lines 283, 288-293
SaveVideoEntry ==
    /\ pc = "loop"
    /\ i = Len(video_frames)
    /\ log' = Append(log, Event("save_video", Len(output_frames), "ok"))
    /\ IF output_frames = <<>>
       THEN pc' = "done" /\ UNCHANGED writer
       ELSE pc' = "writing" /\ writer' = [writer EXCEPT !.created = TRUE]
    /\ UNCHANGED <<video_frames, mel_spec, audio_length, aligned_audio, i, face_bbox,
                   lip_region, guidance_strength, output_frames, exc, args, ret>>

\* lines 295-296
WriteFrame ==
    /\ pc = "writing"
    /\ Len(writer.written) < Len(output_frames)
    /\ writer' = [writer EXCEPT
                    !.written = Append(@, output_frames[Len(writer.written) + 1])]
    /\ UNCHANGED <<pc, video_frames, mel_spec, audio_length, aligned_audio, i, face_bbox,
                   lip_region, guidance_strength, output_frames, exc, log, args, ret>>

\* line 298
Release ==
    /\ pc = "writing"
    /\ Len(writer.written) = Len(output_frames)
    /\ writer' = [writer EXCEPT !.released = TRUE]
    /\ pc' = "done"
    /\ UNCHANGED <<video_frames, mel_spec, audio_length, aligned_audio, i, face_bbox,
                   lip_region, guidance_strength, output_frames, exc, log, args, ret>>

Next ==
    \/ Load
    \/ Align
    \/ Detect
    \/ Passthrough
    \/ ExtractLip
    \/ Resize
    \/ Guidance
    \/ Predict
    \/ EmitOriginal
    \/ SaveVideoEntry
    \/ WriteFrame
    \/ Release

Spec == Init /\ [][Next]_vars

-----------------------------------------------------------------------------
(* Direct calls of the three pure operations, each with its own             *)
(* specification: the state is the last call's arguments and result.        *)

InitCall == pc = "call" /\ InitCommon

UnchangedPipeline ==
    UNCHANGED <<video_frames, mel_spec, audio_length, aligned_audio, i, face_bbox,
                lip_region, guidance_strength, output_frames, writer, exc, log>>

\* align_audio_video(audio_features, video_frames)
CallAlign ==
    /\ pc = "call"
    /\ \E samples \in 0..MaxSamples, c \in 0..MaxCols, target \in 0..MaxTarget :
          /\ args' = [audio_length |-> AudioLength(samples), mel_spec |-> MelRamp(c),
                      target_frames |-> target]
          /\ ret' = align_audio_video(AudioLength(samples), MelRamp(c), target)
    /\ pc' = "returned"
    /\ UnchangedPipeline

SpecAlign == InitCall /\ [][CallAlign]_vars

\* DynamicGuidanceSystem(base_strength).compute_guidance_strength(...)
CallGuidance ==
    /\ pc = "call"
    /\ \E b \in 0..MaxBaseNum, p \in (-1)..MaxPowerNum, f \in 0..MaxTotal, t \in 0..MaxTotal :
          /\ args' = [base_strength |-> Rat(b, 10), audio_power |-> Rat(p, MelScale * MelScale),
                      frame_idx |-> f, total_frames |-> t]
          /\ ret' = compute_guidance_strength(Rat(b, 10), Rat(p, MelScale * MelScale), f, t)
    /\ pc' = "returned"
    /\ UnchangedPipeline

SpecGuidance == InitCall /\ [][CallGuidance]_vars

\* FaceDetector.extract_lip_region(frame, face_bbox)
CallExtract ==
    /\ pc = "call"
    /\ \E size \in FrameSizes, b \in Boxes :
          LET frame == [id |-> 1, height |-> size[1], width |-> size[2]]
          IN  /\ args' = [frame |-> frame, face_bbox |-> b]
              /\ ret' = Ok(extract_lip_region(frame, b))
    /\ pc' = "returned"
    /\ UnchangedPipeline

SpecRegion == InitCall /\ [][CallExtract]_vars

-----------------------------------------------------------------------------
(* Properties of align_audio_video (SpecAlign) *)

Returned == pc = "returned"

\* the contract of the aligner for one call: a track of length target_frames
\* whose entry k is source column min(floor(k * cols / target), cols - 1),
\* the source index within [0, cols - 1] and non-decreasing in k
AlignContract ==
    LET c == Len(args.mel_spec)
        t == args.target_frames
        src(k) == IF (k * c) \div t < c - 1 THEN (k * c) \div t ELSE c - 1
    IN  /\ ret.status = "ok"
        /\ Len(ret.value) = t
        /\ \A k \in 0..(t - 1) :
              /\ src(k) \in 0..(c - 1)
              /\ ret.value[k + 1] = args.mel_spec[src(k) + 1]
              /\ k > 0 => src(k - 1) <= src(k)

\* C3: for every target_frames >= 0 and every matrix of at least one column,
\* align_audio_video returns a track that meets AlignContract.
AlignReturnsTrack ==
    (Returned /\ args.target_frames >= 0 /\ Len(args.mel_spec) >= 1) => AlignContract

\* C3 (what does hold): the same, for calls whose audio_length is not zero.
AlignReturnsTrackGivenAudioLength ==
    (Returned /\ args.target_frames >= 0 /\ Len(args.mel_spec) >= 1
       /\ args.audio_length.num # 0) => AlignContract

\* C7: with a matrix of zero columns align_audio_video never returns a track:
\* the call fails (the claim names the failure AlignmentError), whatever
\* target_frames is.
AlignRejectsEmptyMatrix ==
    (Returned /\ Len(args.mel_spec) = 0) => ret.status = "raise"

-----------------------------------------------------------------------------
(* Properties of compute_guidance_strength (SpecGuidance) *)

ValidGuidanceArgs ==
    /\ args.base_strength.num >= 0
    /\ args.audio_power.num >= 0
    /\ args.total_frames >= 1
    /\ args.frame_idx >= 0
    /\ args.frame_idx <= args.total_frames

Dist(a, b) == IF a < b THEN b - a ELSE a - b

\* C4: for valid arguments the result is
\* base * (1 - |f/T - 1/2| * 3/10) * min(2 * power, 1), stated over the
\* integers as base * (20T - 3|2f - T|) / 20T * min(2pn, pd) / pd, and
\* 0 <= result <= base.
GuidanceWithinBase ==
    (Returned /\ ValidGuidanceArgs) =>
        LET b == args.base_strength
            p == args.audio_power
            f == args.frame_idx
            t == args.total_frames
            sat == IF 2 * p.num < p.den THEN 2 * p.num ELSE p.den
        IN  /\ ret.status = "ok"
            /\ ret.value.den > 0
            /\ ret.value.num * (b.den * 20 * t * p.den)
                 = ret.value.den * (b.num * (20 * t - 3 * Dist(2 * f, t)) * sat)
            /\ RLeq(RZero, ret.value)
            /\ RLeq(ret.value, b)

\* C4 witness: a valid call at the start of the clip with saturating audio
\* power and the default base strength returns 0.85 * 0.7.
GuidanceAtBoundaryReached ==
    /\ Returned
    /\ ValidGuidanceArgs
    /\ args.base_strength = Rat(DefaultBaseNum, 10)
    /\ args.frame_idx = 0
    /\ args.total_frames > 1
    /\ 2 * args.audio_power.num > args.audio_power.den
    /\ ret.status = "ok"
    /\ REq(ret.value, Rat(85 * DefaultBaseNum, 1000))

\* C8: with total_frames = 0 the call fails with InvalidArgument and performs
\* no division by zero.
GuidanceRejectsZeroTotal ==
    (Returned /\ args.total_frames = 0) => ret = Raise("InvalidArgument")

-----------------------------------------------------------------------------
(* Properties of extract_lip_region (SpecRegion) *)

BoxInsideFrame ==
    /\ args.face_bbox[1] + args.face_bbox[3] <= args.frame.width
    /\ args.face_bbox[2] + args.face_bbox[4] <= args.frame.height

\* q = floor(n * a / d), stated without division
IsFloorOf(q, n, a, d) == d * q <= n * a /\ n * a < d * (q + 1)

\* C5 as claimed: for a box inside the frame whose crop is not empty, the crop
\* starts at row y + 0.67h and column x + 0.2w and ends with row y + h - 1 and
\* column x + 0.8w - 1 (the fractions truncated to integers).
CropEndsAtBoxBottom ==
    (Returned /\ BoxInsideFrame
       /\ ret.value.rows.start < ret.value.rows.stop
       /\ ret.value.cols.start < ret.value.cols.stop) =>
        LET x == args.face_bbox[1]
            y == args.face_bbox[2]
            w == args.face_bbox[3]
            h == args.face_bbox[4]
            r == ret.value
        IN  /\ IsFloorOf(r.rows.start - y, h, 67, 100)
            /\ IsFloorOf(r.cols.start - x, w, 2, 10)
            /\ r.rows.stop - 1 = y + h - 1
            /\ IsFloorOf(r.cols.stop - x, w, 8, 10)

Least(a, b) == IF a < b THEN a ELSE b

\* C5 as amended: the crop is frame[lip_y : lip_y + lip_h, lip_x : lip_x + lip_w]
\* with lip_y = y + floor(0.67h), lip_h = floor(0.33h), lip_x = x + floor(0.2w),
\* lip_w = floor(0.6w), clipped to the frame as a numpy slice is; for a box
\* inside the frame the row after the crop is y + h when h is a multiple of
\* 100 and y + h - 1 otherwise, and the column after the crop is x + floor(0.8w)
\* or one less.
CropIsTruncatedRatios ==
    Returned =>
        LET x == args.face_bbox[1]
            y == args.face_bbox[2]
            w == args.face_bbox[3]
            h == args.face_bbox[4]
            r == ret.value
            H == args.frame.height
            W == args.frame.width
            fy == CHOOSE q \in 0..h : IsFloorOf(q, h, 67, 100)
            fh == CHOOSE q \in 0..h : IsFloorOf(q, h, 33, 100)
            fx == CHOOSE q \in 0..w : IsFloorOf(q, w, 2, 10)
            fw == CHOOSE q \in 0..w : IsFloorOf(q, w, 6, 10)
            f8 == CHOOSE q \in 0..w : IsFloorOf(q, w, 8, 10)
        IN  /\ r.frame = args.frame.id
            /\ r.rows.start = Least(y + fy, H)
            /\ r.rows.stop = Least(y + fy + fh, H)
            /\ r.cols.start = Least(x + fx, W)
            /\ r.cols.stop = Least(x + fx + fw, W)
            /\ BoxInsideFrame =>
                  /\ r.rows.stop = (IF h % 100 = 0 THEN y + h ELSE y + h - 1)
                  /\ r.cols.stop \in {x + f8, x + f8 - 1}

\* C5 witness: a 10 x 10 box inside the frame is cropped to rows
\* y + 6 .. y + 8 and columns x + 2 .. x + 7: the last row of the crop is
\* y + h - 2.
TruncatedCropReached ==
    /\ Returned
    /\ BoxInsideFrame
    /\ args.face_bbox[3] = 10
    /\ args.face_bbox[4] = 10
    /\ ret.value.rows = [start |-> args.face_bbox[2] + 6, stop |-> args.face_bbox[2] + 9]
    /\ ret.value.cols = [start |-> args.face_bbox[1] + 2, stop |-> args.face_bbox[1] + 8]

-----------------------------------------------------------------------------
(* Properties of generate_lip_sync and save_video (Spec) *)

Positions(op, k) == {p \in DOMAIN log : log[p].op = op /\ log[p].frame = k}

Count(op, k) == Cardinality(Positions(op, k))

DetectPositions == {p \in DOMAIN log : log[p].op = "detect"}

\* outcome of the (first) detection of frame k
DetectionOf(k) == log[CHOOSE p \in Positions("detect", k) : TRUE].out

SaveInvoked == \E p \in DOMAIN log : log[p].op = "save_video"

InFrame == pc \in {"detected", "cropped", "resized", "guided", "predicted"}

FrameIndexes == 0..(Len(video_frames) - 1)

\* C1: the output is at every moment the first frames of the input, in input
\* order, one per finished iteration, and when the loop completes and
\* save_video is invoked the output is the input, frame for frame, whatever
\* the detections were.
OutputIsInput ==
    /\ Len(output_frames) <= Len(video_frames)
    /\ \A k \in 1..Len(output_frames) : output_frames[k] = video_frames[k]
    /\ pc \in {"loop", "writing", "done"} \cup {"detected", "cropped", "resized",
                                                 "guided", "predicted"}
          => Len(output_frames) = i
    /\ \A p \in DOMAIN log : log[p].op = "emit" =>
          Cardinality({q \in 1..p : log[q].op = "emit"}) = log[p].frame + 1
    /\ SaveInvoked =>
          /\ Len(output_frames) = Len(video_frames)
          /\ output_frames = video_frames

\* C1 witness: a completed run of at least two frames, one with a face and one
\* without, whose output is the input.
MixedRunCompleted ==
    /\ pc = "done"
    /\ Len(video_frames) >= 2
    /\ \E p, q \in DetectPositions : log[p].out = "box" /\ log[q].out = "none"
    /\ output_frames = video_frames
    /\ writer.written = video_frames

\* C2: a frame whose detection is absent is emitted unchanged by the very next
\* step, with no crop, resize, guidance or predictor call for it, and the
\* loop goes on: the step after that is the detection of the next frame, or
\* save_video after the last frame; no run aborts on such a frame.
MissIsPassthrough ==
    \A p \in DetectPositions : log[p].out = "none" =>
        LET k == log[p].frame
        IN  /\ Count("extract", k) = 0
            /\ Count("resize", k) = 0
            /\ Count("guidance", k) = 0
            /\ Count("predict", k) = 0
            /\ IF p = Len(log)
               THEN /\ pc = "detected"
                    /\ face_bbox = NoFace
                    /\ i = k
                    /\ exc = "none"
               ELSE /\ log[p + 1] = Event("emit", k, "ok")
                    /\ Len(output_frames) >= k + 1
                    /\ output_frames[k + 1] = video_frames[k + 1]
                    /\ IF p + 1 = Len(log)
                       THEN pc = "loop" /\ i = k + 1 /\ exc = "none"
                       ELSE IF k + 1 < Len(video_frames)
                       THEN log[p + 2].op = "detect" /\ log[p + 2].frame = k + 1
                       ELSE log[p + 2].op = "save_video" /\ log[p + 2].frame = Len(video_frames)

\* C2 witness: the first of two frames had no face, was emitted, and the
\* second frame has been detected.
MissThenNextFrame ==
    /\ Len(log) >= 3
    /\ log[1] = Event("detect", 0, "none")
    /\ log[2] = Event("emit", 0, "ok")
    /\ log[3].op = "detect"
    /\ log[3].frame = 1
    /\ output_frames = <<video_frames[1]>>

\* C6: save_video on an empty sequence returns at once: no writer is created,
\* nothing is written or released, nothing is raised; on a non-empty sequence
\* the writer is created, the frames are written once each in sequence order,
\* and the writer is released after the last write.
SaveVideoAllOrNothing ==
    /\ ~SaveInvoked => writer = NoWriter
    /\ (SaveInvoked /\ output_frames = <<>>) =>
          /\ pc = "done"
          /\ exc = "none"
          /\ writer = NoWriter
    /\ (SaveInvoked /\ output_frames # <<>>) =>
          /\ pc \in {"writing", "done"}
          /\ exc = "none"
          /\ writer.created
          /\ Len(writer.written) <= Len(output_frames)
          /\ \A k \in 1..Len(writer.written) : writer.written[k] = output_frames[k]
          /\ writer.released <=> pc = "done"
          /\ writer.released => writer.written = output_frames

\* C6 witness: save_video was invoked with no frames and returned.
EmptySaveReturned ==
    /\ SaveInvoked
    /\ output_frames = <<>>
    /\ pc = "done"

\* C9: a step that raises ends the run there: the exception is the run's
\* result, the raising call is the last call made and was made once, no later
\* frame is touched, save_video is not invoked and no writer exists; no step
\* is possible after the abort.
FailureAbortsRun ==
    /\ (pc = "aborted") <=> (exc # "none")
    /\ \A p \in DOMAIN log : log[p].out = "raise" => (pc = "aborted" /\ p = Len(log))
    /\ pc = "aborted" =>
          /\ ~SaveInvoked
          /\ writer = NoWriter
          /\ ~ENABLED Next
          /\ log # <<>> =>
                /\ log[Len(log)].out = "raise"
                /\ log[Len(log)].frame = i
                /\ Count(log[Len(log)].op, i) = 1
                /\ \A q \in DOMAIN log : log[q].frame <= i
                /\ Len(output_frames) = i

\* C9 witness: the predictor raised on the second frame of three; the first
\* frame had been emitted, nothing was saved.
PredictorFailureReached ==
    /\ pc = "aborted"
    /\ exc = "PredictorError"
    /\ i = 1
    /\ Len(video_frames) = 3
    /\ Len(output_frames) = 1

\* C10 as claimed: when a run that entered the frame loop has ended, the
\* locator has been invoked exactly once on every input frame and the
\* predictor exactly once on every frame with a box, never on the others.
LocatorOncePerInputFrame ==
    (pc \in {"done", "aborted"} /\ Len(aligned_audio) = Len(video_frames)) =>
        \A k \in FrameIndexes :
            /\ Count("detect", k) = 1
            /\ Count("predict", k) = (IF DetectionOf(k) = "box" THEN 1 ELSE 0)

\* C10 as amended: the locator calls are for frames 0, 1, 2, ... in that order,
\* one per frame reached, never two for a frame; the state holds the box of
\* the current frame's detection; the predictor is called at most once for a
\* frame, never for a frame without a box, and each call comes after the
\* detection, crop and guidance of its frame and before its emission; every
\* emitted frame with a box has had exactly one predictor call; in a run that
\* completes every input frame has had exactly one locator call.
LocatorOncePerFrameReached ==
    /\ \A p \in DetectPositions :
          Cardinality({q \in 1..p : log[q].op = "detect"}) = log[p].frame + 1
    /\ \A k \in FrameIndexes : Count("detect", k) <= 1
    /\ Cardinality(DetectPositions) = (IF InFrame \/ (pc = "aborted" /\ log # <<>>)
                                       THEN i + 1 ELSE i)
    /\ InFrame => face_bbox.kind = DetectionOf(i)
    /\ \A k \in FrameIndexes :
          /\ Count("predict", k) <= 1
          /\ Count("predict", k) = 1 => (Count("detect", k) = 1 /\ DetectionOf(k) = "box")
          /\ k < Len(output_frames) =>
                /\ Count("detect", k) = 1
                /\ Count("predict", k) = (IF DetectionOf(k) = "box" THEN 1 ELSE 0)
    /\ \A p \in DOMAIN log : log[p].op = "predict" =>
          LET k == log[p].frame
          IN  /\ \E d, e, g \in 1..p :
                    /\ d < e
                    /\ e < g
                    /\ g < p
                    /\ log[d] = Event("detect", k, "box")
                    /\ log[e] = Event("extract", k, "ok")
                    /\ log[g] = Event("guidance", k, "ok")
              /\ \A q \in Positions("emit", k) : q > p
              /\ Len(output_frames) > k => Count("emit", k) = 1
    /\ pc \in {"writing", "done"} =>
          \A k \in FrameIndexes : Count("detect", k) = 1

\* C10 witness: a completed run of two frames with boxes: two locator calls
\* and two predictor calls, each in frame order.
TwoFacesCompleted ==
    /\ pc = "done"
    /\ Len(video_frames) = 2
    /\ Count("detect", 0) = 1
    /\ Count("detect", 1) = 1
    /\ Count("predict", 0) = 1
    /\ Count("predict", 1) = 1

====
